---- MODULE Spec2Model ----
(***************************************************************************)
(* The live-media ingestion pipeline of services/video_analysis:           *)
(*   main.py   analyze_video, process_video_stream, websocket_insights and *)
(*             the process-wide insights_queue                             *)
(*   tasks.py  the Celery task process_audio_chunk and its three sub-steps *)
(*                                                                         *)
(* Every coroutine is cut at its await points: what runs between two       *)
(* awaits is one action, because the event loop runs nothing else in       *)
(* between.  A byte of a subprocess's output is modelled by the pair       *)
(* <<session, position>>, so that a duplicated, skipped or foreign byte is *)
(* visible.  An insight carries the session, the segment and the index it  *)
(* was produced at, for the same reason.                                   *)
(***************************************************************************)
EXTENDS Integers, Sequences, FiniteSets, TLC

\* Bounds of the model.
MaxStream == 2      \* bytes a subprocess writes before it closes its output
MaxThreshold == 2   \* THRESHOLD ranges over 1..MaxThreshold (100000 in main.py)
MaxChunk == 2       \* a read returns 1..MaxChunk bytes (1024 in main.py)

MaxInsights == 2    \* records per result in the runs of ExtractorSpec
MaxShort == 1       \* bytes each subprocess writes in the runs of SharedSpec
MaxPipe == 1        \* bytes the pipe of a subprocess's error output holds

\* tasks.py:50-56  the list extract_insights_sync returns holds one record.
InsightsPerResult == 1

\* The flows process_video_stream can run as, and the ones that are requested
\* in the runs of Spec (one POST /analyze-video).
Sessions == {"A", "B"}
Requested == {"A"}

\* The connections to /ws/insights, and the one that is opened in the runs of
\* SharedSpec.
Subscribers == {"u", "v"}
Listening == {"u"}

\* The places where the worker task can fail (tasks.py 65-79).
FailPoints == {"tmpfile", "transcribe", "diarize", "extract", "unlink"}

\* The session the client of a connection is interested in.  The endpoint
\* /ws/insights takes no parameter, so the handler never learns it.
WantedBy(c) == IF c = "u" THEN "A" ELSE "B"

VARIABLES
    THRESHOLD,       \* main.py:131
    nrecords,        \* the number of records the insight extractor returns
    stream,          \* per session: bytes the subprocess writes before it closes
    wk,              \* a run of process_audio_chunk, sub-step by sub-step
    errpipe,         \* per session: bytes in the subprocess's stderr pipe
    response,        \* per session: what analyze_video returned for its request
    pc,              \* per session: position of process_video_stream
    proc,            \* per session: the ffmpeg subprocess
    nread,           \* per session: bytes read so far from process.stdout
    audio_buffer,    \* per session: main.py:130
    segments,        \* per session: the snapshots current_buffer, in order
    task,            \* per session: the Celery task of each snapshot
    wait,            \* per session: how the wait for each result ended
    completed,       \* history, per session: the tasks in the order they finished
    insights_queue,  \* main.py:20
    enqueued,        \* history: every insight ever put, in put order
    ws,              \* per subscriber: position of websocket_insights
    received         \* per subscriber: the insights sent to it, in order

vars == <<THRESHOLD, nrecords, stream, wk, errpipe, response, pc, proc, nread, audio_buffer, segments, task, wait,
          completed, insights_queue, enqueued, ws, received>>

sessionVars == <<THRESHOLD, nrecords, stream, wk, errpipe, response, pc, proc, nread, audio_buffer, segments, task,
                 wait, completed>>

----------------------------------------------------------------------------
\* Helpers

Range(f) == {f[i] : i \in DOMAIN f}

RECURSIVE Flatten(_)
Flatten(ss) == IF ss = <<>> THEN <<>> ELSE Head(ss) \o Flatten(Tail(ss))

\* The bytes at positions from+1 .. from+c of session s's stream.
Bytes(s, from, c) == [i \in 1..c |-> <<s, from + i>>]

----------------------------------------------------------------------------
\* tasks.py: the Segment Worker

\* transcribe_audio_sync: the text, or "" when model.transcribe raises.
TranscribeAudioSync(fail) == IF "transcribe" \in fail THEN "" ELSE "text"

\* perform_diarization_sync: the speaker map, or {} when diarization raises.
PerformDiarizationSync(fail) == IF "diarize" \in fail THEN "none" ELSE "speakers"

\* diarization.get("speaker_1", "Unknown")
SpeakerOf(diarization) == IF diarization = "speakers" THEN "Speaker 1" ELSE "Unknown"

\* extract_insights_sync: a list of insight records, nrecords of them: the one
\* record of tasks.py:50-56 in the runs of Spec and FairSpec.  The
\* transcription is a parameter of the function and is not used by it.
ExtractInsightsSync(tag, transcription, diarization) ==
    [i \in 1..nrecords |-> [sess |-> tag[1], seg |-> tag[2], idx |-> i,
                     speaker |-> SpeakerOf(diarization)]]

\* process_audio_chunk: what the task ends with.  The temporary file is
\* written before the try block; the unlink runs in the finally block, and
\* an exception raised there replaces the value being returned.
ProcessAudioChunk(tag, audio_bytes, fail) ==
    IF "tmpfile" \in fail
    THEN [kind |-> "raise", insights |-> <<>>]
    ELSE LET transcription == TranscribeAudioSync(fail)
             diarization == PerformDiarizationSync(fail)
             insights == IF "extract" \in fail
                         THEN <<>>
                         ELSE ExtractInsightsSync(tag, transcription, diarization)
         IN  IF "unlink" \in fail
             THEN [kind |-> "raise", insights |-> <<>>]
             ELSE [kind |-> "return", insights |-> insights]

----------------------------------------------------------------------------
\* main.py: process_video_stream

\* main.py:138  audio_buffer.extend(chunk)
Extend(buf, chunk) == buf \o chunk

\* A variant of line 141 that cuts only above the threshold.
ShouldCutAbove(buf) == Len(buf) > THRESHOLD

\* main.py:141  len(audio_buffer) >= THRESHOLD
ShouldCut(buf) == Len(buf) >= THRESHOLD

\* main.py:142  current_buffer = bytes(audio_buffer)
Snapshot(buf) == buf

\* A variant of line 143 that leaves the buffer as it is.
NotCleared(buf) == buf

\* main.py:143  audio_buffer.clear()
Cleared(buf) == <<>>

\* A variant of line 151 that waits without a bound: celery_result.get().
NeverTimesOut(t) == FALSE

\* main.py:147  the arguments process_audio_chunk.delay is called with: the
\* snapshot and nothing else.
DelayArgs(current_buffer) == [audio_bytes |-> current_buffer]

\* main.py:151  celery_result.get(10) raises TimeoutError when the task has
\* not finished within the bound.
TimesOut(t) == t.status = "queued"

\* A variant of lines 152-153 that puts the insights last to first.
CollectedReversed(how, insights) ==
    IF how = "result"
    THEN [i \in 1..Len(insights) |-> insights[Len(insights) + 1 - i]]
    ELSE <<>>

\* A variant of lines 152-153 that stops after the first insight of a result.
CollectedPartial(how, insights) ==
    IF how = "result" /\ insights # <<>> THEN <<insights[1]>> ELSE <<>>

\* main.py:149-155  what the try block puts on insights_queue, by the way
\* the wait ended: the result's insights in order, nothing in the except branch.
Collected(how, insights) == IF how = "result" THEN insights ELSE <<>>

\* main.py:154-157  "except Exception" catches whatever the wait raised, so
\* the flow goes on to the sleep of line 157 however the wait ended.
AfterWait(how) == "sleep"

\* A variant of line 151 that calls celery_result.get(10) in the coroutine
\* itself: the event loop's thread is held for as long as the call lasts.
HoldsLoopInWait(s) == pc[s] = "wait"

\* main.py:151  celery_result.get runs in a thread of the default executor
\* (asyncio.to_thread) and the flow is suspended at the await: no position of
\* process_video_stream keeps the event loop from the other coroutines.
HoldsLoop(s) == FALSE

\* The event loop can run a step of the flow of session s / of a handler.
LoopFreeFor(s) == \A t \in Sessions \ {s} : ~HoldsLoop(t)
LoopFree == \A t \in Sessions : ~HoldsLoop(t)

\* main.py:120-127  the subprocess runs: it writes to its pipes, closes them
\* and exits, unless it is stuck in a write to a pipe that is full.
Alive(s) == proc[s] = "running"

\* No response yet.
NoResponse == [status |-> "none", video_url |-> "none"]

\* The state at start-up, but for the extractor.
InitPipeline ==
    /\ THRESHOLD \in 1..MaxThreshold
    /\ errpipe = [s \in Sessions |-> 0]
    /\ response = [s \in Sessions |-> NoResponse]
    /\ pc = [s \in Sessions |-> "idle"]
    /\ proc = [s \in Sessions |-> "none"]
    /\ nread = [s \in Sessions |-> 0]
    /\ audio_buffer = [s \in Sessions |-> <<>>]
    /\ segments = [s \in Sessions |-> <<>>]
    /\ task = [s \in Sessions |-> <<>>]
    /\ wait = [s \in Sessions |-> <<>>]
    /\ completed = [s \in Sessions |-> <<>>]
    /\ insights_queue = <<>>
    /\ enqueued = <<>>
    /\ ws = [c \in Subscribers |-> [st |-> "none", alive |-> FALSE,
                                    held |-> <<>>, attachedAt |-> 0]]
    /\ received = [c \in Subscribers |-> <<>>]

\* No run of the worker is followed step by step.
NoRun == [pc |-> "none", tag |-> <<"none", 0>>, audio_bytes |-> <<>>, file |-> <<>>,
          created |-> FALSE, exists |-> FALSE, unlinked |-> 0,
          transcription |-> "none", diarization |-> "none", insights |-> <<>>,
          calls |-> <<>>, failed |-> {}]

Init ==
    /\ nrecords = InsightsPerResult
    /\ stream = [s \in Sessions |-> MaxStream]
    /\ wk = NoRun
    /\ InitPipeline

\* The start-up state with the placeholder of tasks.py:44-56 replaced by an
\* extractor that returns up to MaxInsights records for a segment.
InitExtractor ==
    /\ nrecords \in 1..MaxInsights
    /\ stream = [s \in Sessions |-> MaxStream]
    /\ wk = NoRun
    /\ InitPipeline

\* The start-up state of a process whose subprocesses write short streams.
InitShort ==
    /\ nrecords = InsightsPerResult
    /\ stream = [s \in Sessions |-> MaxShort]
    /\ wk = NoRun
    /\ InitPipeline

\* A worker process that has taken the task of a segment of 1..MaxStream
\* bytes from the broker, next to a pipeline at start-up.
InitWorker ==
    /\ nrecords \in 1..MaxInsights
    /\ stream = [s \in Sessions |-> MaxStream]
    /\ \E c \in 1..MaxStream :
          wk = [NoRun EXCEPT !.pc = "tmpfile", !.tag = <<"A", 1>>,
                             !.audio_bytes = Bytes("A", 0, c)]
    /\ InitPipeline

\* The video_url of the request that asks for session s.
VideoUrl(s) == s

\* main.py:168  the body analyze_video returns.
Started(request) == [status |-> "started", video_url |-> request.video_url]

\* A variant of analyze_video that responds once the subprocess is launched.
AnalyzeVideoAfterLaunch(s) ==
    /\ pc[s] = "idle"
    /\ pc' = [pc EXCEPT ![s] = "read"]
    /\ proc' = [proc EXCEPT ![s] = "running"]
    /\ response' = [response EXCEPT ![s] = Started([video_url |-> VideoUrl(s)])]
    /\ UNCHANGED <<THRESHOLD, nrecords, stream, wk, errpipe, completed, nread, audio_buffer, segments,
                   task, wait, insights_queue, enqueued, ws, received>>

\* main.py:164-168  analyze_video: process_video_stream(request.video_url) is
\* added as a background task, which runs once the response has been sent,
\* and the response is returned.
AnalyzeVideo(s) ==
    /\ pc[s] = "idle"
    /\ LoopFreeFor(s)
    /\ pc' = [pc EXCEPT ![s] = "launch"]
    /\ response' = [response EXCEPT ![s] = Started([video_url |-> VideoUrl(s)])]
    /\ UNCHANGED <<THRESHOLD, nrecords, stream, wk, errpipe, completed, proc, nread, audio_buffer, segments, task, wait,
                   insights_queue, enqueued, ws, received>>

\* main.py:120-131  create_subprocess_exec returns the process.
Launch(s) ==
    /\ pc[s] = "launch"
    /\ LoopFreeFor(s)
    /\ pc' = [pc EXCEPT ![s] = "read"]
    /\ proc' = [proc EXCEPT ![s] = "running"]
    /\ UNCHANGED <<THRESHOLD, nrecords, stream, wk, errpipe, response, completed, nread, audio_buffer, segments, task, wait,
                   insights_queue, enqueued, ws, received>>

\* A variant of line 120 that tries the launch again when it fails.
LaunchFailsRetried(s) ==
    /\ pc[s] = "launch"
    /\ proc[s] = "none"
    /\ proc' = [proc EXCEPT ![s] = "failed"]
    /\ UNCHANGED <<THRESHOLD, nrecords, stream, wk, errpipe, response, completed, pc, nread, audio_buffer,
                   segments, task, wait, insights_queue, enqueued, ws, received>>

\* main.py:120  create_subprocess_exec raises: the exception leaves the flow.
LaunchFails(s) ==
    /\ pc[s] = "launch"
    /\ LoopFreeFor(s)
    /\ pc' = [pc EXCEPT ![s] = "failed"]
    /\ proc' = [proc EXCEPT ![s] = "failed"]
    /\ UNCHANGED <<THRESHOLD, nrecords, stream, wk, errpipe, response, completed, nread, audio_buffer, segments, task, wait,
                   insights_queue, enqueued, ws, received>>

\* main.py:134-147  a read returns c bytes, below the threshold: lines 138 and
\* 141, then the sleep of line 157.
ReadBelow(s) ==
    /\ pc[s] = "read"
    /\ LoopFreeFor(s)
    /\ Alive(s)
    /\ \E c \in 1..MaxChunk :
         /\ nread[s] + c <= stream[s]
         /\ LET buf == Extend(audio_buffer[s], Bytes(s, nread[s], c))
            IN  /\ ~ShouldCut(buf)
                /\ nread' = [nread EXCEPT ![s] = @ + c]
                /\ audio_buffer' = [audio_buffer EXCEPT ![s] = buf]
                /\ pc' = [pc EXCEPT ![s] = "sleep"]
    /\ UNCHANGED <<THRESHOLD, nrecords, stream, wk, errpipe, response, completed, proc, segments, task, wait,
                   insights_queue, enqueued, ws, received>>

\* A variant of lines 130-143 with one rolling buffer for all the flows of the
\* process: the snapshot takes, and the clear empties, what every flow has
\* appended.
ReadAndSubmitSharedBuffer(s) ==
    /\ pc[s] = "read"
    /\ LoopFreeFor(s)
    /\ \E c \in 1..MaxChunk :
         /\ nread[s] + c <= stream[s]
         /\ LET other == CHOOSE t \in Sessions : t # s
                buf == Extend(audio_buffer[other] \o audio_buffer[s], Bytes(s, nread[s], c))
                current_buffer == Snapshot(buf)
            IN  /\ ShouldCut(buf)
                /\ nread' = [nread EXCEPT ![s] = @ + c]
                /\ audio_buffer' = [t \in Sessions |-> Cleared(buf)]
                /\ segments' = [segments EXCEPT ![s] = Append(@, current_buffer)]
                /\ task' = [task EXCEPT ![s] =
                              Append(@, [status |-> "queued", args |-> DelayArgs(current_buffer),
                                         insights |-> <<>>])]
                /\ wait' = [wait EXCEPT ![s] = Append(@, "pending")]
                /\ pc' = [pc EXCEPT ![s] = "wait"]
    /\ UNCHANGED <<THRESHOLD, nrecords, stream, wk, errpipe, response, completed, proc,
                   insights_queue, enqueued, ws, received>>

\* A variant of line 142 that hands the bytearray itself to the task instead
\* of a copy: what is appended later also lands in the segment cut last.
ReadAndSubmitAliased(s) ==
    /\ pc[s] = "read"
    /\ LoopFreeFor(s)
    /\ \E c \in 1..MaxChunk :
         /\ nread[s] + c <= stream[s]
         /\ LET chunk == Bytes(s, nread[s], c)
                buf == Extend(audio_buffer[s], chunk)
                current_buffer == Snapshot(buf)
                shared == IF task[s] = <<>>
                          THEN task[s]
                          ELSE [task[s] EXCEPT ![Len(task[s])].args =
                                    DelayArgs(Extend(@.audio_bytes, chunk))]
            IN  /\ ShouldCut(buf)
                /\ nread' = [nread EXCEPT ![s] = @ + c]
                /\ audio_buffer' = [audio_buffer EXCEPT ![s] = Cleared(buf)]
                /\ segments' = [segments EXCEPT ![s] = Append(@, current_buffer)]
                /\ task' = [task EXCEPT ![s] =
                              Append(shared, [status |-> "queued",
                                              args |-> DelayArgs(current_buffer),
                                              insights |-> <<>>])]
                /\ wait' = [wait EXCEPT ![s] = Append(@, "pending")]
                /\ pc' = [pc EXCEPT ![s] = "wait"]
    /\ UNCHANGED <<THRESHOLD, nrecords, stream, wk, errpipe, response, completed, proc,
                   insights_queue, enqueued, ws, received>>

\* A variant of lines 147-157 that submits and goes on to the sleep of line
\* 157 without waiting for the result.
ReadAndSubmitNoWait(s) ==
    /\ pc[s] = "read"
    /\ LoopFreeFor(s)
    /\ \E c \in 1..MaxChunk :
         /\ nread[s] + c <= stream[s]
         /\ LET buf == Extend(audio_buffer[s], Bytes(s, nread[s], c))
                current_buffer == Snapshot(buf)
            IN  /\ ShouldCut(buf)
                /\ nread' = [nread EXCEPT ![s] = @ + c]
                /\ audio_buffer' = [audio_buffer EXCEPT ![s] = Cleared(buf)]
                /\ segments' = [segments EXCEPT ![s] = Append(@, current_buffer)]
                /\ task' = [task EXCEPT ![s] =
                              Append(@, [status |-> "queued", args |-> DelayArgs(current_buffer),
                                         insights |-> <<>>])]
                /\ wait' = [wait EXCEPT ![s] = Append(@, "pending")]
                /\ pc' = [pc EXCEPT ![s] = "sleep"]
    /\ UNCHANGED <<THRESHOLD, nrecords, stream, wk, errpipe, response, completed, proc,
                   insights_queue, enqueued, ws, received>>

\* main.py:134-151  a read returns c bytes and the threshold is reached:
\* snapshot, clear, process_audio_chunk.delay, and the flow suspends in the
\* wait for the result (line 151).
ReadAndSubmit(s) ==
    /\ pc[s] = "read"
    /\ LoopFreeFor(s)
    /\ Alive(s)
    /\ \E c \in 1..MaxChunk :
         /\ nread[s] + c <= stream[s]
         /\ LET buf == Extend(audio_buffer[s], Bytes(s, nread[s], c))
                current_buffer == Snapshot(buf)
            IN  /\ ShouldCut(buf)
                /\ nread' = [nread EXCEPT ![s] = @ + c]
                /\ audio_buffer' = [audio_buffer EXCEPT ![s] = Cleared(buf)]
                /\ segments' = [segments EXCEPT ![s] = Append(@, current_buffer)]
                /\ task' = [task EXCEPT ![s] =
                              Append(@, [status |-> "queued", args |-> DelayArgs(current_buffer),
                                         insights |-> <<>>])]
                /\ wait' = [wait EXCEPT ![s] = Append(@, "pending")]
                /\ pc' = [pc EXCEPT ![s] = "wait"]
    /\ UNCHANGED <<THRESHOLD, nrecords, stream, wk, errpipe, response, completed, proc, insights_queue, enqueued, ws, received>>

\* A variant of line 147 in which the exception of one flow stops the event
\* loop, and with it every flow of the process.
ReadAndSubmitFailsAll(s) ==
    /\ pc[s] = "read"
    /\ LoopFreeFor(s)
    /\ Alive(s)
    /\ \E c \in 1..MaxChunk :
         /\ nread[s] + c <= stream[s]
         /\ LET buf == Extend(audio_buffer[s], Bytes(s, nread[s], c))
                current_buffer == Snapshot(buf)
            IN  /\ ShouldCut(buf)
                /\ nread' = [nread EXCEPT ![s] = @ + c]
                /\ audio_buffer' = [audio_buffer EXCEPT ![s] = Cleared(buf)]
                /\ segments' = [segments EXCEPT ![s] = Append(@, current_buffer)]
                /\ task' = [task EXCEPT ![s] =
                              Append(@, [status |-> "lost", args |-> DelayArgs(current_buffer),
                                         insights |-> <<>>])]
                /\ wait' = [wait EXCEPT ![s] = Append(@, "none")]
                /\ pc' = [t \in Sessions |->
                             IF t = s \/ pc[t] \in {"launch", "read", "wait", "sleep", "reap"}
                             THEN "crashed" ELSE pc[t]]
    /\ UNCHANGED <<THRESHOLD, nrecords, stream, wk, errpipe, response, completed, proc,
                   insights_queue, enqueued, ws, received>>

\* main.py:134-147  as ReadAndSubmit, but process_audio_chunk.delay raises (the
\* broker cannot be reached).  Line 147 is outside the try block of line 149:
\* the exception leaves process_video_stream.
ReadAndSubmitFails(s) ==
    /\ pc[s] = "read"
    /\ LoopFreeFor(s)
    /\ Alive(s)
    /\ \E c \in 1..MaxChunk :
         /\ nread[s] + c <= stream[s]
         /\ LET buf == Extend(audio_buffer[s], Bytes(s, nread[s], c))
                current_buffer == Snapshot(buf)
            IN  /\ ShouldCut(buf)
                /\ nread' = [nread EXCEPT ![s] = @ + c]
                /\ audio_buffer' = [audio_buffer EXCEPT ![s] = Cleared(buf)]
                /\ segments' = [segments EXCEPT ![s] = Append(@, current_buffer)]
                /\ task' = [task EXCEPT ![s] =
                              Append(@, [status |-> "lost", args |-> DelayArgs(current_buffer),
                                         insights |-> <<>>])]
                /\ wait' = [wait EXCEPT ![s] = Append(@, "none")]
                /\ pc' = [pc EXCEPT ![s] = "crashed"]
    /\ UNCHANGED <<THRESHOLD, nrecords, stream, wk, errpipe, response, completed, proc, insights_queue, enqueued, ws, received>>

\* A variant of lines 135-136 that submits what is left in the buffer as a
\* last, short segment.
ReadEofFlushes(s) ==
    /\ pc[s] = "read"
    /\ pc' = [pc EXCEPT ![s] = "reap"]
    /\ IF audio_buffer[s] = <<>>
       THEN UNCHANGED <<audio_buffer, segments, task, wait>>
       ELSE /\ audio_buffer' = [audio_buffer EXCEPT ![s] = <<>>]
            /\ segments' = [segments EXCEPT ![s] = Append(@, audio_buffer[s])]
            /\ task' = [task EXCEPT ![s] =
                          Append(@, [status |-> "queued",
                                     args |-> DelayArgs(audio_buffer[s]),
                                     insights |-> <<>>])]
            /\ wait' = [wait EXCEPT ![s] = Append(@, "none")]
    /\ UNCHANGED <<THRESHOLD, nrecords, stream, wk, errpipe, response, completed, proc, nread,
                   insights_queue, enqueued, ws, received>>

\* main.py:134-136  the read returns b"": end of stream, the loop is left.
ReadEof(s) ==
    /\ pc[s] = "read"
    /\ LoopFreeFor(s)
    /\ Alive(s)
    /\ pc' = [pc EXCEPT ![s] = "reap"]
    /\ UNCHANGED <<THRESHOLD, nrecords, stream, wk, errpipe, response, completed, proc, nread, audio_buffer, segments, task, wait,
                   insights_queue, enqueued, ws, received>>

\* main.py:159  await process.wait()
Reap(s) ==
    /\ pc[s] = "reap"
    /\ LoopFreeFor(s)
    /\ Alive(s)
    /\ pc' = [pc EXCEPT ![s] = "done"]
    /\ proc' = [proc EXCEPT ![s] = "reaped"]
    /\ UNCHANGED <<THRESHOLD, nrecords, stream, wk, errpipe, response, completed, nread, audio_buffer, segments, task, wait,
                   insights_queue, enqueued, ws, received>>

\* main.py:157  await asyncio.sleep(0.1)
Sleep(s) ==
    /\ pc[s] = "sleep"
    /\ LoopFreeFor(s)
    /\ pc' = [pc EXCEPT ![s] = "read"]
    /\ UNCHANGED <<THRESHOLD, nrecords, stream, wk, errpipe, response, completed, proc, nread, audio_buffer, segments, task, wait,
                   insights_queue, enqueued, ws, received>>

\* The end of the wait of line 151 for the segment cut last, and lines
\* 152-155.  insights_queue is unbounded, so no put of line 153 suspends and
\* the whole for loop runs in the step that resumes the flow.
EndWait(s, how, insights) ==
    LET k == Len(wait[s])
        put == Collected(how, insights)
    IN  /\ wait' = [wait EXCEPT ![s][k] = how]
        /\ insights_queue' = insights_queue \o put
        /\ enqueued' = enqueued \o put
        /\ pc' = [pc EXCEPT ![s] = AfterWait(how)]
        /\ UNCHANGED <<THRESHOLD, nrecords, stream, wk, errpipe, response, completed, proc, nread, audio_buffer, segments, task,
                       ws, received>>

\* A variant of lines 151-153 that also collects, when it arrives, the result
\* of a segment whose wait has timed out.
GetResultAlsoLate(s) ==
    \/ /\ pc[s] = "wait"
       /\ task[s][Len(task[s])].status = "returned"
       /\ EndWait(s, "result", task[s][Len(task[s])].insights)
    \/ \E k \in DOMAIN wait[s] :
          /\ wait[s][k] = "timeout"
          /\ task[s][k].status = "returned"
          /\ \A i \in Range(task[s][k].insights) : i \notin Range(enqueued)
          /\ task[s][k].insights # <<>>
          /\ insights_queue' = insights_queue \o task[s][k].insights
          /\ enqueued' = enqueued \o task[s][k].insights
          /\ UNCHANGED <<sessionVars, ws, received>>

\* main.py:151-153  celery_result.get returns the task's return value.
GetResult(s) ==
    /\ pc[s] = "wait"
    /\ LoopFreeFor(s)
    /\ task[s][Len(task[s])].status = "returned"
    /\ EndWait(s, "result", task[s][Len(task[s])].insights)

\* main.py:151,154-155  celery_result.get re-raises the task's exception.
GetRaises(s) ==
    /\ pc[s] = "wait"
    /\ LoopFreeFor(s)
    /\ task[s][Len(task[s])].status = "raised"
    /\ EndWait(s, "error", task[s][Len(task[s])].insights)

\* A variant of lines 154-155 that submits the segment again, once, when the
\* wait for its result times out.
GetTimeoutResubmits(s) ==
    /\ pc[s] = "wait"
    /\ task[s][Len(task[s])].status = "queued"
    /\ IF Len(task[s]) = Len(segments[s])
       THEN /\ task' = [task EXCEPT ![s] =
                          Append(@, [status |-> "queued",
                                     args |-> task[s][Len(task[s])].args,
                                     insights |-> <<>>])]
            /\ wait' = [wait EXCEPT ![s] =
                          Append([@ EXCEPT ![Len(@)] = "timeout"], "pending")]
            /\ UNCHANGED <<THRESHOLD, nrecords, stream, wk, errpipe, response, completed, pc, proc, nread,
                           audio_buffer, segments, insights_queue, enqueued,
                           ws, received>>
       ELSE EndWait(s, "timeout", <<>>)

\* main.py:151,154-155  celery_result.get(10) raises TimeoutError.
GetTimeout(s) ==
    /\ pc[s] = "wait"
    /\ LoopFreeFor(s)
    /\ TimesOut(task[s][Len(task[s])])
    /\ EndWait(s, "timeout", task[s][Len(task[s])].insights)

\* main.py:151,154-155  celery_result.get raises because the result backend
\* cannot be reached.
GetBrokerError(s) ==
    /\ pc[s] = "wait"
    /\ LoopFreeFor(s)
    /\ EndWait(s, "error", task[s][Len(task[s])].insights)

\* tasks.py:58-79  a worker process runs the task of segment k of session s,
\* at any time after its submission, with any of its steps failing.
WorkerRun(s, k) ==
    /\ k \in DOMAIN task[s]
    /\ task[s][k].status = "queued"
    /\ \E fail \in SUBSET FailPoints :
         LET r == ProcessAudioChunk(<<s, k>>, task[s][k].args.audio_bytes, fail)
         IN  task' = [task EXCEPT ![s][k] =
                        [status |-> IF r.kind = "return" THEN "returned" ELSE "raised",
                         args |-> task[s][k].args,
                         insights |-> r.insights]]
    /\ completed' = [completed EXCEPT ![s] = Append(@, k)]
    /\ UNCHANGED <<THRESHOLD, nrecords, stream, wk, errpipe, response, pc, proc, nread, audio_buffer, segments, wait,
                   insights_queue, enqueued, ws, received>>

----------------------------------------------------------------------------
\* main.py: websocket_insights

\* main.py:173  await websocket.accept(); the handler then waits in
\* insights_queue.get().
Connect(c) ==
    /\ ws[c].st = "none"
    /\ LoopFree
    /\ ws' = [ws EXCEPT ![c] = [st |-> "get", alive |-> TRUE, held |-> <<>>,
                                attachedAt |-> Len(enqueued)]]
    /\ UNCHANGED <<sessionVars, insights_queue, enqueued, received>>

\* A variant of line 176 on a last-in-first-out queue.
QueueGetLast(c) ==
    /\ ws[c].st = "get"
    /\ LoopFree
    /\ insights_queue # <<>>
    /\ ws' = [ws EXCEPT ![c].st = "send",
                        ![c].held = <<insights_queue[Len(insights_queue)]>>]
    /\ insights_queue' = SubSeq(insights_queue, 1, Len(insights_queue) - 1)
    /\ UNCHANGED <<sessionVars, enqueued, received>>

\* main.py:176  insight = await insights_queue.get(): the head of the queue is
\* removed and handed to this handler.
QueueGet(c) ==
    /\ ws[c].st = "get"
    /\ LoopFree
    /\ insights_queue # <<>>
    /\ ws' = [ws EXCEPT ![c].st = "send", ![c].held = <<Head(insights_queue)>>]
    /\ insights_queue' = Tail(insights_queue)
    /\ UNCHANGED <<sessionVars, enqueued, received>>

\* main.py:177  await websocket.send_json(insight) on an open connection.
SendJson(c) ==
    /\ ws[c].st = "send"
    /\ LoopFree
    /\ ws[c].alive
    /\ received' = [received EXCEPT ![c] = @ \o ws[c].held]
    /\ ws' = [ws EXCEPT ![c].st = "get", ![c].held = <<>>]
    /\ UNCHANGED <<sessionVars, insights_queue, enqueued>>

\* A variant of lines 175-180 with the try block inside the loop: a failed
\* send is logged and the handler takes the next insight.
SendFailsGoesOn(c) ==
    /\ ws[c].st = "send"
    /\ LoopFree
    /\ ~ws[c].alive
    /\ ws' = [ws EXCEPT ![c].st = "get", ![c].held = <<>>]
    /\ UNCHANGED <<sessionVars, insights_queue, enqueued, received>>

\* A variant of lines 178-180 that puts the insight it could not send back on
\* the queue before it closes the socket.
SendFailsPutsBack(c) ==
    /\ ws[c].st = "send"
    /\ LoopFree
    /\ ~ws[c].alive
    /\ ws' = [ws EXCEPT ![c].st = "closed", ![c].held = <<>>]
    /\ insights_queue' = insights_queue \o ws[c].held
    /\ UNCHANGED <<sessionVars, enqueued, received>>

\* main.py:177-180  send_json raises on a connection the client has left: the
\* except branch logs, closes the socket and the handler returns.  The insight
\* taken at line 176 is not put back.
SendFails(c) ==
    /\ ws[c].st = "send"
    /\ LoopFree
    /\ ~ws[c].alive
    /\ ws' = [ws EXCEPT ![c].st = "closed", ![c].held = <<>>]
    /\ UNCHANGED <<sessionVars, insights_queue, enqueued, received>>

\* The client goes away.  The handler never reads from the socket, so it
\* notices at its next send only.
ClientDisconnect(c) ==
    /\ ws[c].st \in {"get", "send"}
    /\ ws[c].alive
    /\ ws' = [ws EXCEPT ![c].alive = FALSE]
    /\ UNCHANGED <<sessionVars, insights_queue, enqueued, received>>

----------------------------------------------------------------------------

Next ==
    \/ \E s \in Requested : AnalyzeVideo(s)
    \/ \E s \in Requested : Launch(s)
    \/ \E s \in Requested : LaunchFails(s)
    \/ \E s \in Requested : ReadBelow(s)
    \/ \E s \in Requested : ReadAndSubmit(s)
    \/ \E s \in Requested : ReadAndSubmitFails(s)
    \/ \E s \in Requested : ReadEof(s)
    \/ \E s \in Requested : Reap(s)
    \/ \E s \in Requested : Sleep(s)
    \/ \E s \in Requested : GetResult(s)
    \/ \E s \in Requested : GetRaises(s)
    \/ \E s \in Requested : GetTimeout(s)
    \/ \E s \in Requested : GetBrokerError(s)
    \/ \E s \in Requested, k \in 1..MaxStream : WorkerRun(s, k)
    \/ \E c \in Subscribers : Connect(c)
    \/ \E c \in Subscribers : QueueGet(c)
    \/ \E c \in Subscribers : SendJson(c)
    \/ \E c \in Subscribers : SendFails(c)
    \/ \E c \in Subscribers : ClientDisconnect(c)

Spec == Init /\ [][Next]_vars

\* The steps of the flows and of the workers alone, with no subscriber taking
\* part.  No subscriber step writes a variable that these steps read, other
\* than insights_queue, which they only append to.
PipelineNext ==
    \/ \E s \in Requested : AnalyzeVideo(s)
    \/ \E s \in Requested : Launch(s)
    \/ \E s \in Requested : LaunchFails(s)
    \/ \E s \in Requested : ReadBelow(s)
    \/ \E s \in Requested : ReadAndSubmit(s)
    \/ \E s \in Requested : ReadAndSubmitFails(s)
    \/ \E s \in Requested : ReadEof(s)
    \/ \E s \in Requested : Reap(s)
    \/ \E s \in Requested : Sleep(s)
    \/ \E s \in Requested : GetResult(s)
    \/ \E s \in Requested : GetRaises(s)
    \/ \E s \in Requested : GetTimeout(s)
    \/ \E s \in Requested : GetBrokerError(s)
    \/ \E s \in Requested, k \in 1..MaxStream : WorkerRun(s, k)

\* The wait of main.py:151 is bounded: within 10 s celery_result.get returns,
\* re-raises or raises TimeoutError, and the thread that runs it hands the
\* outcome back to the flow.  Nothing else is assumed to make progress: a
\* worker may never run a task, the subprocess may never write.
WaitEnds(s) == GetResult(s) \/ GetRaises(s) \/ GetTimeout(s)

FairSpec ==
    Init /\ [][PipelineNext]_vars /\ \A s \in Requested : WF_vars(WaitEnds(s))

\* The flows and the workers with an extractor that returns several records.
ExtractorSpec == InitExtractor /\ [][PipelineNext]_vars

----------------------------------------------------------------------------
\* tasks.py: process_audio_chunk, one sub-step at a time

\* What a sub-step was called with and what it gave back.
Call(step, input, output) == [step |-> step, input |-> input, output |-> output]

WorkerStep(next) ==
    /\ wk' = next
    /\ UNCHANGED <<THRESHOLD, nrecords, stream, errpipe, response, pc, proc, nread, audio_buffer,
                   segments, task, wait, completed, insights_queue, enqueued,
                   ws, received>>

\* tasks.py:65-68  the bytes are written to a temporary file.
WriteTmp ==
    /\ wk.pc = "tmpfile"
    /\ WorkerStep([wk EXCEPT !.pc = "transcribe", !.file = wk.audio_bytes,
                             !.created = TRUE, !.exists = TRUE])

\* tasks.py:65-68  the temporary file cannot be written: the exception is
\* raised before the try block and leaves the task.  Either
\* NamedTemporaryFile raises and there is no file, or write or flush raises
\* and the file, created with delete=False, stays.
WriteTmpFails ==
    /\ wk.pc = "tmpfile"
    /\ \E made \in BOOLEAN :
         WorkerStep([wk EXCEPT !.pc = "raised", !.failed = @ \cup {"tmpfile"},
                               !.created = made, !.exists = made])

\* tasks.py:71  transcription = transcribe_audio_sync(tmp_name)
Transcribe ==
    /\ wk.pc = "transcribe"
    /\ \E fail \in {{}, {"transcribe"}} :
         LET out == TranscribeAudioSync(fail)
         IN  WorkerStep([wk EXCEPT !.pc = "diarize",
                                   !.transcription = out,
                                   !.calls = Append(@, Call("transcribe", wk.file, out)),
                                   !.failed = @ \cup fail])

\* A variant of lines 71-72 that does not diarize a segment whose
\* transcription failed, and goes to the return of line 77.
DiarizeUnlessFailed ==
    /\ wk.pc = "diarize"
    /\ IF "transcribe" \in wk.failed
       THEN WorkerStep([wk EXCEPT !.pc = "unlink", !.insights = <<>>])
       ELSE \E fail \in {{}, {"diarize"}} :
              LET out == PerformDiarizationSync(fail)
              IN  WorkerStep([wk EXCEPT !.pc = "extract",
                                        !.diarization = out,
                                        !.calls = Append(@, Call("diarize", wk.file, out)),
                                        !.failed = @ \cup fail])

\* tasks.py:72  diarization = perform_diarization_sync(tmp_name)
Diarize ==
    /\ wk.pc = "diarize"
    /\ \E fail \in {{}, {"diarize"}} :
         LET out == PerformDiarizationSync(fail)
         IN  WorkerStep([wk EXCEPT !.pc = "extract",
                                   !.diarization = out,
                                   !.calls = Append(@, Call("diarize", wk.file, out)),
                                   !.failed = @ \cup fail])

\* A variant of line 73 that extracts from a fresh diarization of the file
\* instead of the one line 72 produced.
ExtractFromFresh ==
    /\ wk.pc = "extract"
    /\ LET out == ExtractInsightsSync(wk.tag, wk.transcription, "speakers")
       IN  WorkerStep([wk EXCEPT !.pc = "unlink",
                                 !.insights = out,
                                 !.calls = Append(@, Call("extract",
                                               <<wk.transcription, "speakers">>, out))])

\* tasks.py:73-74  insights = extract_insights_sync(transcription, diarization)
\* and the return statement; the finally block runs next.
Extract ==
    /\ wk.pc = "extract"
    /\ LET out == ExtractInsightsSync(wk.tag, wk.transcription, wk.diarization)
       IN  WorkerStep([wk EXCEPT !.pc = "unlink",
                                 !.insights = out,
                                 !.calls = Append(@, Call("extract",
                                               <<wk.transcription, wk.diarization>>, out))])

\* tasks.py:73,75-77  extract_insights_sync raises: the except branch logs and
\* returns []; the finally block runs next.
ExtractFails ==
    /\ wk.pc = "extract"
    /\ WorkerStep([wk EXCEPT !.pc = "unlink",
                             !.insights = <<>>,
                             !.calls = Append(@, Call("extract",
                                           <<wk.transcription, wk.diarization>>, "raise")),
                             !.failed = @ \cup {"extract"}])

\* tasks.py:79  os.unlink(tmp_name), and the task ends with the value returned.
Unlink ==
    /\ wk.pc = "unlink"
    /\ WorkerStep([wk EXCEPT !.pc = "returned", !.file = <<>>,
                             !.exists = FALSE, !.unlinked = @ + 1])

\* tasks.py:79  os.unlink raises in the finally block: the exception replaces
\* the value being returned.
UnlinkFails ==
    /\ wk.pc = "unlink"
    /\ WorkerStep([wk EXCEPT !.pc = "raised", !.insights = <<>>,
                             !.failed = @ \cup {"unlink"}])

WorkerNext ==
    \/ WriteTmp
    \/ WriteTmpFails
    \/ Transcribe
    \/ Diarize
    \/ Extract
    \/ ExtractFails
    \/ Unlink
    \/ UnlinkFails

\* One run of the worker task on one segment.
WorkerSpec == InitWorker /\ [][WorkerNext]_vars

----------------------------------------------------------------------------
\* Two sessions at a time

\* The capture loops of two sessions, with no worker ever finishing a task:
\* every wait ends by timeout or by an error of the result backend.
CaptureNext ==
    \/ \E s \in Sessions : AnalyzeVideo(s)
    \/ \E s \in Sessions : Launch(s)
    \/ \E s \in Sessions : LaunchFails(s)
    \/ \E s \in Sessions : ReadBelow(s)
    \/ \E s \in Sessions : ReadAndSubmit(s)
    \/ \E s \in Sessions : ReadAndSubmitFails(s)
    \/ \E s \in Sessions : ReadEof(s)
    \/ \E s \in Sessions : Reap(s)
    \/ \E s \in Sessions : Sleep(s)
    \/ \E s \in Sessions : GetTimeout(s)
    \/ \E s \in Sessions : GetBrokerError(s)

CaptureSpec == Init /\ [][CaptureNext]_vars

\* Two sessions with short streams, their workers, and one subscriber whose
\* client stays; the broker and the launches do not fail.
SharedNext ==
    \/ \E s \in Sessions : AnalyzeVideo(s)
    \/ \E s \in Sessions : Launch(s)
    \/ \E s \in Sessions : ReadBelow(s)
    \/ \E s \in Sessions : ReadAndSubmit(s)
    \/ \E s \in Sessions : ReadEof(s)
    \/ \E s \in Sessions : Reap(s)
    \/ \E s \in Sessions : Sleep(s)
    \/ \E s \in Sessions : GetResult(s)
    \/ \E s \in Sessions : GetTimeout(s)
    \/ \E s \in Sessions, k \in 1..MaxStream : WorkerRun(s, k)
    \/ \E c \in Listening : Connect(c)
    \/ \E c \in Listening : QueueGet(c)
    \/ \E c \in Listening : SendJson(c)

SharedSpec == InitShort /\ [][SharedNext]_vars

----------------------------------------------------------------------------
\* The error output of the subprocess

\* main.py:126  stderr=asyncio.subprocess.PIPE: ffmpeg writes its banner and
\* its progress lines to a pipe.  No statement of process_video_stream reads
\* process.stderr, so what is written stays in the pipe.
WriteStderr(s) ==
    /\ Alive(s)
    /\ errpipe[s] < MaxPipe
    /\ errpipe' = [errpipe EXCEPT ![s] = @ + 1]
    /\ UNCHANGED <<THRESHOLD, nrecords, stream, wk, response, pc, proc, nread,
                   audio_buffer, segments, task, wait, completed, insights_queue,
                   enqueued, ws, received>>

\* main.py:126  the subprocess writes to the pipe of its error output when
\* the pipe is full: the write blocks until somebody reads from the pipe.
StderrBlocks(s) ==
    /\ Alive(s)
    /\ errpipe[s] = MaxPipe
    /\ proc' = [proc EXCEPT ![s] = "blocked"]
    /\ UNCHANGED <<THRESHOLD, nrecords, stream, wk, errpipe, response, pc, nread,
                   audio_buffer, segments, task, wait, completed, insights_queue,
                   enqueued, ws, received>>

\* The flow and its workers with a broker that works and a subprocess that
\* also writes to its error output.
DrainNext ==
    \/ \E s \in Requested : AnalyzeVideo(s)
    \/ \E s \in Requested : Launch(s)
    \/ \E s \in Requested : ReadBelow(s)
    \/ \E s \in Requested : ReadAndSubmit(s)
    \/ \E s \in Requested : ReadEof(s)
    \/ \E s \in Requested : Reap(s)
    \/ \E s \in Requested : Sleep(s)
    \/ \E s \in Requested : GetResult(s)
    \/ \E s \in Requested : GetRaises(s)
    \/ \E s \in Requested : GetTimeout(s)
    \/ \E s \in Requested, k \in 1..MaxStream : WorkerRun(s, k)
    \/ \E s \in Requested : WriteStderr(s)
    \/ \E s \in Requested : StderrBlocks(s)

\* A step of the flow of session s.
FlowStep(s) ==
    \/ Launch(s)
    \/ ReadBelow(s)
    \/ ReadAndSubmit(s)
    \/ ReadEof(s)
    \/ Sleep(s)
    \/ WaitEnds(s)
    \/ Reap(s)

\* The event loop runs a flow whenever it can take a step: a subprocess that
\* is not stuck writes its finite stream and closes its output, a sleep ends,
\* a bounded wait ends, a subprocess that is not stuck exits.  Workers need
\* not run and the subprocess need not write to its error output.
DrainSpec ==
    Init /\ [][DrainNext]_vars /\ \A s \in Requested : WF_vars(FlowStep(s))

----------------------------------------------------------------------------
\* Two sessions, one of which ends

\* Two sessions with short streams, a broker and launches that can fail,
\* their workers, and one subscriber that attaches.
IndependentNext ==
    \/ \E s \in Sessions : AnalyzeVideo(s)
    \/ \E s \in Sessions : Launch(s)
    \/ \E s \in Sessions : LaunchFails(s)
    \/ \E s \in Sessions : ReadBelow(s)
    \/ \E s \in Sessions : ReadAndSubmit(s)
    \/ \E s \in Sessions : ReadAndSubmitFails(s)
    \/ \E s \in Sessions : ReadEof(s)
    \/ \E s \in Sessions : Reap(s)
    \/ \E s \in Sessions : Sleep(s)
    \/ \E s \in Sessions : GetResult(s)
    \/ \E s \in Sessions : GetTimeout(s)
    \/ \E s \in Sessions, k \in 1..MaxStream : WorkerRun(s, k)
    \/ \E c \in Listening : Connect(c)

IndependentSpec == InitShort /\ [][IndependentNext]_vars

----------------------------------------------------------------------------
\* Vocabulary of the properties

Running == {"read", "wait", "sleep"}

\* Segment k of session s has been submitted and its result is awaited.
Pending(s, k) == k \in DOMAIN wait[s] /\ wait[s][k] = "pending"

\* Any step of the capture loop at line 134: a read of a chunk or of the end
\* of the stream.
ReadStep(s) == ReadBelow(s) \/ ReadAndSubmit(s) \/ ReadAndSubmitFails(s) \/ ReadEof(s)

\* The handler of subscriber c is attached and its client still there.
Attached(c) == ws[c].st \in {"get", "send"} /\ ws[c].alive

\* The insights put on the queue after subscriber c attached.
EnqueuedSince(c) == {enqueued[i] : i \in (ws[c].attachedAt + 1)..Len(enqueued)}

\* The insights put on the queue before subscriber c attached.
EnqueuedBefore(c) == {enqueued[i] : i \in 1..ws[c].attachedAt}

\* The insights from segment k of session s.
InsightsOf(s, k) == {i \in Range(enqueued) : i.sess = s /\ i.seg = k}

----------------------------------------------------------------------------
\* C1: while the result of a submitted segment is pending, the capture loop
\* can take its next read (and so submit a further segment): submission does
\* not block the loop on the worker's result.
C1_SubmitDoesNotBlockCapture ==
    \A s \in Sessions :
        (\E k \in DOMAIN wait[s] : Pending(s, k)) => ENABLED ReadStep(s)

\* C2: broadcast.  Once the queue is drained and no handler holds an insight,
\* every subscriber that is attached has been sent every insight enqueued
\* since it attached.
C2_BroadcastToEveryAttached ==
    (insights_queue = <<>> /\ \A c \in Subscribers : ws[c].held = <<>>)
        => \A c \in Subscribers :
               Attached(c) => EnqueuedSince(c) \subseteq Range(received[c])

\* C3 (as stated): when the stream has ended after L bytes, exactly
\* floor(L/THRESHOLD) segments were cut, each of exactly THRESHOLD bytes, and
\* L mod THRESHOLD bytes are left in the rolling buffer.
C3_ExactlyThresholdSized ==
    \A s \in Sessions :
        pc[s] \in {"reap", "done"} =>
            /\ Len(segments[s]) = nread[s] \div THRESHOLD
            /\ \A k \in DOMAIN segments[s] : Len(segments[s][k]) = THRESHOLD
            /\ Len(audio_buffer[s]) = nread[s] % THRESHOLD

\* C3 (amended): after L bytes, every segment holds at least THRESHOLD bytes
\* and fewer than THRESHOLD plus one read, so at most floor(L/THRESHOLD)
\* segments were cut; fewer than THRESHOLD bytes are left in the rolling
\* buffer; the segments and the buffer together hold L bytes.
C3_AtLeastThresholdSized ==
    \A s \in Sessions :
        /\ \A k \in DOMAIN segments[s] :
               /\ Len(segments[s][k]) >= THRESHOLD
               /\ Len(segments[s][k]) <= THRESHOLD + MaxChunk - 1
        /\ Len(segments[s]) <= nread[s] \div THRESHOLD
        /\ Len(audio_buffer[s]) < THRESHOLD
        /\ Len(Flatten(segments[s])) + Len(audio_buffer[s]) = nread[s]

\* C3 witness: a stream has ended and one of its segments is longer than the
\* threshold.
C3_Witness ==
    \E s \in Sessions :
        /\ pc[s] = "done"
        /\ \E k \in DOMAIN segments[s] : Len(segments[s][k]) > THRESHOLD

\* The segments cut so far followed by the rolling buffer are the bytes read
\* so far, in order.
C4_Partition ==
    \A s \in Sessions :
        Flatten(segments[s]) \o audio_buffer[s] = Bytes(s, 0, nread[s])

\* The step that takes a snapshot is the step that leaves the buffer empty,
\* and the snapshot is the buffer with the chunk just read.
C4_SnapshotClearsInOneStep ==
    \A s \in Sessions :
        segments'[s] # segments[s] =>
            /\ audio_buffer'[s] = <<>>
            /\ \E c \in 1..MaxChunk :
                   segments'[s] = Append(segments[s],
                                         audio_buffer[s] \o Bytes(s, nread[s], c))

\* C4: no byte is duplicated or skipped across segment boundaries: at every
\* point the segments cut so far followed by the rolling buffer are exactly
\* the bytes read so far, in order, and the snapshot of the buffer and its
\* clearing happen in one step.
C4_NoByteDuplicatedOrSkipped == []C4_Partition /\ [][C4_SnapshotClearsInOneStep]_vars

\* C4 witness: a session has cut two segments, so a segment boundary lies
\* between two bytes of the stream.
C4_Witness == \E s \in Sessions : Len(segments[s]) >= 2

\* C5: the worker task never raises to its caller, whichever step fails.
C5_WorkerNeverRaises ==
    \A s \in Sessions : \A k \in DOMAIN task[s] : task[s][k].status # "raised"

\* No insight of a segment whose wait timed out has ever been put on the
\* delivery queue.
C6_NothingFromTimedOut ==
    \A s \in Sessions : \A k \in DOMAIN wait[s] :
        wait[s][k] = "timeout" => InsightsOf(s, k) = {}

\* The step in which a wait times out enqueues nothing and leaves the flow at
\* the sleep before its next read.
C6_TimeoutStep ==
    \A s \in Sessions : \A k \in DOMAIN wait[s] :
        (wait[s][k] = "pending" /\ wait'[s][k] = "timeout") =>
            /\ enqueued' = enqueued
            /\ insights_queue' = insights_queue
            /\ pc'[s] = "sleep"

\* C6: when the wait for a segment's result times out, no insight of that
\* segment is ever put on the delivery queue, also after the worker has
\* finished; no exception reaches the capture loop, which goes on reading.
C6_TimeoutDropsSegment == []C6_NothingFromTimedOut /\ [][C6_TimeoutStep]_vars

\* C6 witness: the wait for a segment timed out, the worker finished later
\* with insights, and the loop has since cut a further segment.
C6_Witness ==
    \E s \in Sessions : \E k \in DOMAIN wait[s] :
        /\ wait[s][k] = "timeout"
        /\ task[s][k].status = "returned"
        /\ task[s][k].insights # <<>>
        /\ Len(segments[s]) > k

\* C7: a broker error does not end a running session: no flow is ended by an
\* exception raised in its loop.
C7_BrokerErrorKeepsSession == \A s \in Sessions : pc[s] # "crashed"

\* The wait for the result of every submitted segment ends.
C8_EveryWaitEnds ==
    \A s \in Sessions : \A k \in 1..MaxStream : Pending(s, k) ~> ~Pending(s, k)

\* The step that ends a wait leaves the flow in its loop.
C8_LoopGoesOn ==
    \A s \in Sessions : \A k \in DOMAIN wait[s] :
        (wait[s][k] = "pending" /\ wait'[s][k] # "pending") => pc'[s] \in Running

\* C8: a segment whose worker never finishes cannot wedge the pipeline: the
\* wait for the result of every submitted segment ends (result, timeout or
\* error), and the step that ends it leaves the flow in its loop, from where
\* later segments are submitted and their insights enqueued.
C8_NoWedge == C8_EveryWaitEnds /\ [][C8_LoopGoesOn]_vars

\* C8 witness: the worker of a segment has never finished, the wait for it
\* has ended, and the insights of a later segment are on the queue.
C8_Witness ==
    \E s \in Sessions : \E k \in DOMAIN wait[s] :
        /\ task[s][k].status = "queued"
        /\ wait[s][k] = "timeout"
        /\ \E j \in DOMAIN wait[s] : j > k /\ InsightsOf(s, j) # {}

\* C9: no backlog.  Every insight sent to a subscriber was enqueued after the
\* subscriber attached.
C9_NoBacklog ==
    \A c \in Subscribers : Range(received[c]) \cap EnqueuedBefore(c) = {}

\* C10: independence.  An insight enqueued while subscriber c is attached and
\* taken by another subscriber is still c's to receive: c has been sent it,
\* holds it, or finds it on the queue.
C10_SubscribersIndependent ==
    \A c \in Subscribers : \A d \in Subscribers \ {c} :
        Attached(c) =>
            \A i \in EnqueuedSince(c) :
                i \in Range(received[d]) \cup Range(ws[d].held)
                    => i \in Range(received[c]) \cup Range(ws[c].held)
                             \cup Range(insights_queue)

----------------------------------------------------------------------------
\* Vocabulary of the properties, continued

\* The places in the history of the queue of the insights of segment k of
\* session s.
PutsOf(s, k) ==
    {p \in DOMAIN enqueued : enqueued[p].sess = s /\ enqueued[p].seg = k}

\* The worker of segment a of session s finished before the worker of
\* segment b did.
CompletedBefore(s, a, b) ==
    \E i \in DOMAIN completed[s] : \E j \in DOMAIN completed[s] :
        i < j /\ completed[s][i] = a /\ completed[s][j] = b

----------------------------------------------------------------------------
\* C11: a handler whose client has gone takes no insight from the queue: no
\* insight is consumed on behalf of a disconnected subscriber.
C11_NothingTakenForDisconnected ==
    [][\A c \in Subscribers :
           (ws[c].st = "get" /\ ~ws[c].alive) => ws'[c].st # "send"]_vars

\* C12: the insights of one result are put on the queue in the order the
\* worker returned them and next to each other: the places of a segment's
\* insights in the history of the queue are consecutive, the record of index
\* 1 first, and they are all the records of the result.
C12_ResultOrderKept ==
    \A s \in Sessions : \A k \in DOMAIN task[s] :
        PutsOf(s, k) # {} =>
            \E a \in DOMAIN enqueued :
                /\ PutsOf(s, k) = a..(a + Len(task[s][k].insights) - 1)
                /\ \A p \in PutsOf(s, k) : enqueued[p] = task[s][k].insights[p - a + 1]

\* C12 witness: the results of two segments are on the queue, one of them
\* with more than one record.
C12_Witness ==
    \E s \in Sessions : \E j \in DOMAIN task[s] : \E k \in DOMAIN task[s] :
        /\ j # k
        /\ Cardinality(PutsOf(s, j)) >= 2
        /\ PutsOf(s, k) # {}

C14_SequenceNumbers ==
    \A s \in Sessions : \A k \in DOMAIN task[s] :
        /\ "seq" \in DOMAIN task[s][k].args
        /\ task[s][k].args.seq = k

\* C15: each segment is submitted exactly once: the delay() calls of a
\* session are, one for one and in order, its snapshots, also after a wait
\* has timed out or failed.
C15_SubmittedExactlyOnce ==
    \A s \in Sessions :
        /\ Len(task[s]) = Len(segments[s])
        /\ \A k \in DOMAIN task[s] : task[s][k].args.audio_bytes = segments[s][k]
        /\ \A j \in DOMAIN task[s] : \A k \in DOMAIN task[s] :
               j # k => task[s][j].args # task[s][k].args

\* C15 witness: a flow has ended by end of stream after the wait for one of
\* its segments timed out or failed.
C15_Witness ==
    \E s \in Sessions : \E k \in DOMAIN wait[s] :
        wait[s][k] \in {"timeout", "error"} /\ pc[s] = "done"

\* C16: on every exit path the subprocess has been waited for: a flow that
\* has ended, by end of stream or by an exception in its loop, has reaped
\* the subprocess it launched.
C16_SubprocessReaped ==
    \A s \in Sessions : pc[s] \in {"done", "crashed"} => proc[s] = "reaped"

\* The flow whose subprocess could not be launched has ended and has read
\* nothing, cut and submitted nothing, and enqueued nothing.
C17_NothingAfterFailedLaunch ==
    \A s \in Sessions :
        proc[s] = "failed" =>
            /\ pc[s] = "failed"
            /\ nread[s] = 0
            /\ audio_buffer[s] = <<>>
            /\ segments[s] = <<>>
            /\ task[s] = <<>>
            /\ \A i \in Range(enqueued) : i.sess # s

\* Once the launch has failed it is not tried again.
C17_NoRelaunch ==
    \A s \in Sessions :
        proc[s] = "failed" => (proc'[s] = "failed" /\ pc'[s] = "failed")

\* C17: if the subprocess cannot be launched the session ends at once: no
\* chunk is read, no segment is submitted, no insight is enqueued, and the
\* launch is not retried.
C17_LaunchFailureEndsSession ==
    []C17_NothingAfterFailedLaunch /\ [][C17_NoRelaunch]_vars

\* C17 witness: a launch has failed while a subscriber is attached.
C17_Witness ==
    \E s \in Sessions : proc[s] = "failed" /\ \E c \in Subscribers : Attached(c)

\* C18: when the launch fails, the status the caller of POST /analyze-video
\* observes for that request is not "started".
C18_FailureReported ==
    \A s \in Sessions : proc[s] = "failed" => response[s].status # "started"

\* A request has been answered exactly when its flow has been scheduled.
C19_AnsweredIffScheduled ==
    \A s \in Sessions : (response[s] = NoResponse) <=> (pc[s] = "idle")

\* The step that answers a request returns "started" with the request's
\* video_url and takes no step of the flow, and a flow is scheduled only by
\* the step that answers its request.
C19_AnswerStep ==
    \A s \in Sessions :
        /\ response'[s] # response[s] =>
               /\ response[s] = NoResponse
               /\ response'[s] = [status |-> "started", video_url |-> VideoUrl(s)]
               /\ pc'[s] = "launch"
               /\ proc'[s] = proc[s]
               /\ nread'[s] = nread[s]
        /\ (pc'[s] = "launch" /\ pc[s] # "launch") => response'[s] # response[s]

\* C19: analyze_video returns {status: "started", video_url} without waiting
\* for any step of process_video_stream, and starts the flow for that URL
\* exactly once per request.
C19_FireAndForget == []C19_AnsweredIffScheduled /\ [][C19_AnswerStep]_vars

\* C19 witness: a request has been answered and its flow has not taken its
\* first step.
C19_Witness ==
    \E s \in Sessions : response[s].status = "started" /\ pc[s] = "launch"

\* After the end of the stream the segments are the ones cut by the loop,
\* each of at least THRESHOLD bytes, and the bytes left in the buffer are in
\* none of them.
C20_ResidueNotSubmitted ==
    \A s \in Sessions :
        pc[s] \in {"reap", "done"} =>
            /\ \A k \in DOMAIN segments[s] : Len(segments[s][k]) >= THRESHOLD
            /\ Len(task[s]) = Len(segments[s])
            /\ Flatten(segments[s]) \o audio_buffer[s] = Bytes(s, 0, nread[s])

\* The empty read takes the flow out of its loop without a submission, and
\* nothing is read or submitted afterwards.
C20_EndOfStreamStep ==
    \A s \in Sessions :
        (pc'[s] \in {"reap", "done"}) =>
            /\ pc[s] \in {"read", "reap", "done"}
            /\ segments'[s] = segments[s]
            /\ Len(task'[s]) = Len(task[s])
            /\ nread'[s] = nread[s]
            /\ audio_buffer'[s] = audio_buffer[s]

\* C20: an empty read ends the read loop, and the bytes still in the rolling
\* buffer, fewer than the threshold, are discarded: they are not submitted as
\* a last short segment, and no segment is submitted after the end of stream.
C20_EndOfStreamDiscardsResidue ==
    []C20_ResidueNotSubmitted /\ [][C20_EndOfStreamStep]_vars

\* C20 witness: a flow has ended by end of stream with bytes left in its
\* buffer.
C20_Witness ==
    \E s \in Sessions : pc[s] = "done" /\ audio_buffer[s] # <<>>

----------------------------------------------------------------------------
\* Vocabulary of the properties, continued

\* The run of the worker has ended.
WorkerEnded == wk.pc \in {"returned", "raised"}

\* The steps of the calls made so far, in order.
StepsCalled == [i \in DOMAIN wk.calls |-> wk.calls[i].step]

\* How a wait that is over has ended.
Outcomes == {"result", "timeout", "error"}

----------------------------------------------------------------------------
\* C21: a failure of transcription gives the empty transcript and a failure
\* of diarization the empty speaker map, nothing else is replaced, the
\* extractor is still called with those values, and when nothing else fails
\* the worker returns what the extractor returned.
C21_FailedStepDefaults ==
    /\ "transcribe" \in wk.failed => wk.transcription = TranscribeAudioSync({"transcribe"})
    /\ "diarize" \in wk.failed => wk.diarization = PerformDiarizationSync({"diarize"})
    /\ (Len(wk.calls) >= 1 /\ "transcribe" \notin wk.failed) =>
           wk.transcription = TranscribeAudioSync({})
    /\ (Len(wk.calls) >= 2 /\ "diarize" \notin wk.failed) =>
           wk.diarization = PerformDiarizationSync({})
    /\ wk.pc \in {"unlink", "returned", "raised"} /\ "tmpfile" \notin wk.failed =>
           /\ StepsCalled = <<"transcribe", "diarize", "extract">>
           /\ wk.calls[3].input = <<wk.transcription, wk.diarization>>
    /\ (WorkerEnded /\ wk.failed \subseteq {"transcribe", "diarize"}) =>
           /\ wk.pc = "returned"
           /\ wk.insights = wk.calls[3].output
           /\ wk.insights =
                  ExtractInsightsSync(wk.tag, wk.transcription, wk.diarization)

\* C21 witness: the worker has returned the extractor's records after both
\* the transcription and the diarization failed.
C21_Witness ==
    /\ wk.pc = "returned"
    /\ wk.failed = {"transcribe", "diarize"}
    /\ wk.insights # <<>>

\* C22: the insights of a segment are on the queue all or not at all, and
\* only those of a result that was received: a segment whose wait timed out
\* or failed has none of its insights on the queue.
C22_AllOrNothing ==
    \A s \in Sessions : \A k \in DOMAIN task[s] :
        /\ Cardinality(PutsOf(s, k)) \in {0, Len(task[s][k].insights)}
        /\ PutsOf(s, k) # {} =>
               /\ wait[s][k] = "result"
               /\ task[s][k].status = "returned"
               /\ \A i \in Range(task[s][k].insights) : i \in Range(enqueued)
        /\ wait[s][k] = "result" =>
               \A i \in Range(task[s][k].insights) : i \in Range(enqueued)
        /\ wait[s][k] \in {"timeout", "error", "none"} => PutsOf(s, k) = {}

\* C22 witness: all the records of a several-record result are on the queue
\* and another segment of the session has timed out or failed.
C22_Witness ==
    \E s \in Sessions : \E j \in DOMAIN task[s] : \E k \in DOMAIN task[s] :
        /\ Cardinality(PutsOf(s, j)) >= 2
        /\ wait[s][k] \in {"timeout", "error"}

\* C23: with two sessions running, a subscriber receives no insight of a
\* session other than the one its client asked for.
C23_OnlyOwnSession ==
    (\A s \in Sessions : pc[s] \in Running) =>
        \A c \in Subscribers : \A i \in Range(received[c]) : i.sess = WantedBy(c)

\* The bytes in a session's buffer and in its submitted segments were read
\* from that session's subprocess.
C24_OwnBytesOnly ==
    \A s \in Sessions :
        /\ \A b \in Range(audio_buffer[s]) : b[1] = s
        /\ \A k \in DOMAIN task[s] :
               \A b \in Range(task[s][k].args.audio_bytes) : b[1] = s
        /\ Flatten(segments[s]) \o audio_buffer[s] = Bytes(s, 0, nread[s])

\* A step that changes one session's buffer or cuts a segment of it leaves
\* the other session's buffer as it is.
C24_OthersBufferKept ==
    \A s \in Sessions : \A t \in Sessions \ {s} :
        (audio_buffer'[s] # audio_buffer[s] \/ segments'[s] # segments[s]) =>
            audio_buffer'[t] = audio_buffer[t]

\* C24: no two sessions share a rolling buffer: a submitted segment holds
\* bytes of its own session only, and one session's snapshot-and-clear never
\* changes the other session's buffer.
C24_NoSharedBuffer == []C24_OwnBytesOnly /\ [][C24_OthersBufferKept]_vars

\* C24 witness: one session has just cut a segment while the other holds
\* bytes in its buffer.
C24_Witness ==
    \E s \in Sessions : \E t \in Sessions \ {s} :
        /\ pc[s] = "wait"
        /\ audio_buffer[s] = <<>>
        /\ audio_buffer[t] # <<>>

\* C25: a submitted segment is immutable: no later step, append or clear
\* among them, changes the bytes a task was submitted with.
C25_SubmittedBytesKept ==
    [][\A s \in Sessions : \A k \in DOMAIN task[s] :
           /\ k \in DOMAIN task'[s]
           /\ task'[s][k].args = task[s][k].args
           /\ segments'[s][k] = segments[s][k]]_vars

\* C25 witness: a second segment has been cut, after an append to and a clear
\* of the buffer, and the first segment's task still holds its bytes.
C25_Witness ==
    \E s \in Sessions :
        /\ Len(task[s]) >= 2
        /\ task[s][1].args.audio_bytes = segments[s][1]
        /\ task[s][1].args.audio_bytes # <<>>

\* C26: each subscriber receives insights in the order they were enqueued.
C26_FifoPerSubscriber ==
    \A c \in Subscribers : \A i \in DOMAIN received[c] : \A j \in DOMAIN received[c] :
        i < j =>
            \E p \in DOMAIN enqueued : \E q \in DOMAIN enqueued :
                /\ p < q
                /\ enqueued[p] = received[c][i]
                /\ enqueued[q] = received[c][j]

\* C26 witness: a subscriber has been sent two insights.
C26_Witness == \E c \in Subscribers : Len(received[c]) >= 2

\* A handler holds an insight exactly between taking it and sending it.
C27_HoldsOneToSend ==
    \A c \in Subscribers :
        /\ Len(ws[c].held) <= 1
        /\ ws[c].st = "send" <=> ws[c].held # <<>>

\* The steps of a handler: one insight taken at a time, one message for the
\* insight taken, the connection closed by a failed send only, and nothing
\* after that.
C27_HandlerStep ==
    \A c \in Subscribers :
        /\ (ws[c].st = "get" /\ ws'[c].st # "get") =>
               /\ ws'[c].st = "send"
               /\ ws'[c].held = <<Head(insights_queue)>>
               /\ insights_queue' = Tail(insights_queue)
        /\ received'[c] # received[c] =>
               /\ ws[c].st = "send"
               /\ received'[c] = received[c] \o ws[c].held
               /\ ws'[c].st = "get"
        /\ (ws[c].st = "send" /\ ws[c].alive /\ ws'[c].st # "send") =>
               /\ received'[c] = received[c] \o ws[c].held
               /\ ws'[c].st = "get"
        /\ (ws[c].st = "send" /\ ~ws[c].alive /\ ws'[c] # ws[c]) =>
               /\ ws'[c].st = "closed"
               /\ received'[c] = received[c]
        /\ (ws'[c].st = "closed" /\ ws[c].st # "closed") =>
               ws[c].st = "send" /\ ~ws[c].alive
        /\ ws[c].st = "closed" =>
               /\ ws'[c] = ws[c]
               /\ received'[c] = received[c]

\* C27: a connection stays open, with one message sent per insight taken,
\* until a send fails; the handler then sends nothing more, closes the
\* connection once and ends.
C27_OpenUntilError == []C27_HoldsOneToSend /\ [][C27_HandlerStep]_vars

\* C27 witness: a handler has sent a message and, after a failed send, has
\* closed its connection.
C27_Witness ==
    \E c \in Subscribers : ws[c].st = "closed" /\ received[c] # <<>>

\* C28: the worker calls transcription, diarization and extraction in that
\* order, each after the one before has given its output, the first two on
\* the bytes of the segment and the extraction on the outputs of the first
\* two.
C28_StrictSequence ==
    /\ \E n \in 0..3 : StepsCalled = SubSeq(<<"transcribe", "diarize", "extract">>, 1, n)
    /\ wk.pc = "transcribe" => Len(wk.calls) = 0
    /\ wk.pc = "diarize" => Len(wk.calls) = 1
    /\ wk.pc = "extract" => Len(wk.calls) = 2
    /\ wk.pc \in {"unlink", "returned"} => Len(wk.calls) = 3
    /\ \A i \in DOMAIN wk.calls :
           /\ i \in {1, 2} => wk.calls[i].input = wk.audio_bytes
           /\ i = 1 => wk.calls[i].output = wk.transcription
           /\ i = 2 => wk.calls[i].output = wk.diarization
           /\ i = 3 => wk.calls[i].input = <<wk.calls[1].output, wk.calls[2].output>>

\* C28 witness: the three sub-steps have run on a segment and the task has
\* returned, the diarization having failed.
C28_Witness ==
    /\ wk.pc = "returned"
    /\ Len(wk.calls) = 3
    /\ wk.failed = {"diarize"}

\* C29: while a flow is suspended in the wait for a result, a handler can
\* take an insight that is on the queue and send the one it holds, and the
\* flow of another session can take its next step.
C29_LoopNotBlocked ==
    \A s \in Sessions :
        pc[s] = "wait" =>
            /\ \A c \in Subscribers :
                   /\ (ws[c].st = "get" /\ insights_queue # <<>>) => ENABLED QueueGet(c)
                   /\ (ws[c].st = "send" /\ ws[c].alive) => ENABLED SendJson(c)
            /\ \A t \in Sessions \ {s} :
                   /\ pc[t] = "launch" => ENABLED Launch(t)
                   /\ pc[t] = "read" => ENABLED ReadStep(t)
                   /\ pc[t] = "sleep" => ENABLED Sleep(t)
                   /\ pc[t] = "reap" => ENABLED Reap(t)

\* C29 witness: one flow waits for a result while an insight is on the queue
\* for a handler that is ready to take it and the other flow is about to read.
C29_Witness ==
    \E s \in Sessions : \E t \in Sessions \ {s} : \E c \in Subscribers :
        /\ pc[s] = "wait"
        /\ pc[t] = "read"
        /\ insights_queue # <<>>
        /\ ws[c].st = "get"

\* A pending wait is the wait for the segment cut last, and the flow is
\* suspended in it.
C30_PendingIsLast ==
    \A s \in Sessions : \A k \in DOMAIN wait[s] :
        Pending(s, k) => (k = Len(wait[s]) /\ pc[s] = "wait")

\* A segment is submitted only when every earlier wait is over.
C30_SubmitAfterWaitEnded ==
    \A s \in Sessions :
        Len(task'[s]) > Len(task[s]) =>
            \A k \in DOMAIN wait[s] : wait[s][k] \in Outcomes

\* C30: within one session at most one segment awaits a result at any time,
\* and segment k+1 is submitted only after the wait for segment k has ended
\* by result, timeout or error.
C30_OneWaitAtATime == []C30_PendingIsLast /\ [][C30_SubmitAfterWaitEnded]_vars

\* C30 witness: the second segment of a session is awaited, the wait for the
\* first being over.
C30_Witness ==
    \E s \in Sessions :
        /\ Len(wait[s]) = 2
        /\ Pending(s, 2)
        /\ wait[s][1] \in Outcomes

----------------------------------------------------------------------------
\* Vocabulary of the properties, continued

\* The flow of a session is over.
Ended == {"done", "crashed", "failed"}

\* The insights subscriber c has been sent or holds.
TakenBy(c) == Range(received[c]) \cup Range(ws[c].held)

\* Sequence q holds no element twice.
NoRepeat(q) == \A i \in DOMAIN q : \A j \in DOMAIN q : q[i] = q[j] => i = j

----------------------------------------------------------------------------
\* C31: within one session insights enter the queue in capture order: every
\* insight of a segment submitted earlier is enqueued before every insight
\* of a segment submitted later, whichever worker finished first.
C31_CaptureOrder ==
    \A s \in Sessions : \A j \in DOMAIN task[s] : \A k \in DOMAIN task[s] :
        j < k => \A p \in PutsOf(s, j) : \A q \in PutsOf(s, k) : p < q

\* C31 witness: the first and the second segment of a session both have
\* their insights on the queue.
C31_Witness ==
    \E s \in Sessions : PutsOf(s, 1) # {} /\ PutsOf(s, 2) # {}

\* What is on the queue is the end of what was put, and what the handlers
\* took they took once: no insight is with two handlers, twice with one, or
\* with a handler and on the queue.
C32_TakenOnce ==
    /\ \E n \in 0..Len(enqueued) :
           insights_queue = SubSeq(enqueued, n + 1, Len(enqueued))
    /\ NoRepeat(enqueued)
    /\ \A c \in Subscribers :
           /\ NoRepeat(received[c] \o ws[c].held)
           /\ TakenBy(c) \cap Range(insights_queue) = {}
           /\ TakenBy(c) \subseteq Range(enqueued)
           /\ \A d \in Subscribers \ {c} : TakenBy(c) \cap TakenBy(d) = {}

\* The queue changes by a get, which removes its head, or by the puts of new
\* insights at its end: nothing that was taken is put again.
C32_QueueStep ==
    insights_queue' # insights_queue =>
        \/ /\ insights_queue # <<>>
           /\ insights_queue' = Tail(insights_queue)
           /\ enqueued' = enqueued
        \/ \E n \in 1..MaxInsights :
              /\ Len(enqueued') = Len(enqueued) + n
              /\ SubSeq(enqueued', 1, Len(enqueued)) = enqueued
              /\ insights_queue' =
                     insights_queue \o SubSeq(enqueued', Len(enqueued) + 1, Len(enqueued'))

\* C32: each insight is dequeued at most once over all the handlers, so it is
\* sent to at most one subscriber, and an insight a handler has taken is not
\* put back on the queue, also when the send fails.
C32_DequeuedAtMostOnce == []C32_TakenOnce /\ [][C32_QueueStep]_vars

\* C32 witness: a handler has closed after a failed send and the insight it
\* had taken is neither on the queue nor with any subscriber.
C32_Witness ==
    \E c \in Subscribers : \E i \in Range(enqueued) :
        /\ ws[c].st = "closed"
        /\ i \notin Range(insights_queue)
        /\ \A d \in Subscribers : i \notin TakenBy(d)

\* At every await of the loop the buffer is below the threshold.
C33_BufferBelowThreshold ==
    \A s \in Sessions : Len(audio_buffer[s]) < THRESHOLD

\* A segment is cut from a buffer that was below the threshold and one chunk:
\* it holds at least THRESHOLD bytes and at most THRESHOLD plus a chunk
\* minus one.
C33_CutStep ==
    \A s \in Sessions :
        Len(segments'[s]) > Len(segments[s]) =>
            LET seg == segments'[s][Len(segments'[s])]
            IN  /\ Len(segments'[s]) = Len(segments[s]) + 1
                /\ Len(seg) - Len(audio_buffer[s]) \in 1..MaxChunk
                /\ Len(seg) >= THRESHOLD
                /\ Len(seg) <= THRESHOLD + MaxChunk - 1

\* C33: at the start of every iteration of the capture loop the buffer holds
\* fewer than THRESHOLD bytes, so a submitted segment holds at least
\* THRESHOLD bytes and at most THRESHOLD plus one chunk minus one.
C33_SegmentLengthBounds == []C33_BufferBelowThreshold /\ [][C33_CutStep]_vars

\* C33 witness: the loop is at the start of an iteration after it cut a
\* segment of the greatest length, THRESHOLD plus a chunk minus one.
C33_Witness ==
    \E s \in Sessions : \E k \in DOMAIN segments[s] :
        /\ pc[s] = "read"
        /\ Len(segments[s][k]) = THRESHOLD + MaxChunk - 1
        /\ MaxChunk > 1

\* C34: a flow that reads a finite stream returns, having waited for its
\* subprocess, whatever the workers do and whatever the subprocess writes to
\* its error output.
C34_FlowReturns ==
    \A s \in Requested :
        (pc[s] = "read") ~> (pc[s] = "done" /\ proc[s] = "reaped")

\* C35: when the task has ended and its temporary file was created, the
\* file has been removed, once.
C35_TmpFileRemoved ==
    (WorkerEnded /\ wk.created) => (~wk.exists /\ wk.unlinked = 1)

\* The step in which one flow ends, by an exception or at the end of its
\* stream, changes nothing of the other flow, of the queue or of the
\* handlers.
C36_EndingStep ==
    \A s \in Sessions : \A t \in Sessions \ {s} :
        (pc'[s] # pc[s] /\ pc'[s] \in Ended \cup {"reap"}) =>
            /\ pc'[t] = pc[t]
            /\ proc'[t] = proc[t]
            /\ nread'[t] = nread[t]
            /\ audio_buffer'[t] = audio_buffer[t]
            /\ segments'[t] = segments[t]
            /\ task'[t] = task[t]
            /\ wait'[t] = wait[t]
            /\ insights_queue' = insights_queue
            /\ ws' = ws
            /\ received' = received

\* With one flow over, the other flow and the handlers can take their next
\* step.
C36_OthersGoOn ==
    \A s \in Sessions : \A t \in Sessions \ {s} :
        pc[s] \in Ended =>
            /\ pc[t] = "launch" => ENABLED Launch(t)
            /\ pc[t] = "read" => ENABLED ReadStep(t)
            /\ pc[t] = "wait" => ENABLED WaitEnds(t)
            /\ pc[t] = "sleep" => ENABLED Sleep(t)
            /\ pc[t] = "reap" => ENABLED Reap(t)
            /\ \A c \in Subscribers :
                   (ws[c].st = "get" /\ insights_queue # <<>>) => ENABLED QueueGet(c)

\* C36: sessions fail independently: when one flow ends by an exception or
\* by end of stream, the other flows, the contents of the queue and the
\* attached handlers are unchanged and go on.
C36_SessionsIndependent == []C36_OthersGoOn /\ [][C36_EndingStep]_vars

\* C36 witness: one flow has ended by an exception while the other runs, an
\* insight is on the queue and a handler is attached.
C36_Witness ==
    \E s \in Sessions : \E t \in Sessions \ {s} : \E c \in Subscribers :
        /\ pc[s] = "crashed"
        /\ pc[t] \in Running
        /\ insights_queue # <<>>
        /\ ws[c].st = "get"

====
